---- MODULE Spec2Model ----
(***************************************************************************)
(* Model of the trade dashboard: the Dashboard view (src/app/page.tsx),    *)
(* the Analysis view (src/app/analysis/page.tsx) and the pure analytics    *)
(* functions of the Analysis view.                                         *)
(*                                                                         *)
(* A browser tab shows one of the two routes.  The data store is the       *)
(* environment: a query resolves with the rows of any table content the    *)
(* store may hold at that time, or with no data (data = null) when the     *)
(* query failed; change notifications arrive at any time while the         *)
(* channel they belong to is open.                                         *)
(***************************************************************************)
EXTENDS Integers, Sequences, FiniteSets, TLC

\* ------------------------------------------------------------------ bounds
\* Fetches one view may issue in a behaviour (caps the id counters): the initial
\* load and the fetches that notifications or Refresh clicks add to it.
MaxFetch == 2
\* Pure-function inputs: the longest list and the largest bin count tried.
MaxLen == 3
MaxBins == 6

\* ------------------------------------------------------------- data values
\* JS null / undefined of a numeric or string field (profit, open_time, from, to).
Null == -99
\* The empty string of a date input.
EmptyStr == 0

Trade(t, p, o) == [ticket |-> t, profit |-> p, open_time |-> o]

\* `x || 0` on a number-or-null: null, undefined, 0 and NaN give 0.
OrZero(x) == IF x = Null \/ x = 0 THEN 0 ELSE x

\* `s || undefined` on a string: the empty string gives undefined.
OrUndefined(s) == IF s = EmptyStr THEN Null ELSE s

\* Truthiness of a string-or-undefined (`if (from)`, `t.open_time`).
Truthy(s) == s # Null /\ s # EmptyStr

\* new Date(open_time).getTime(): the timestamp in milliseconds; the model's open
\* times are whole days.
GetTime(o) == o * 86400000

\* A query result { data }: data is null (query failed) or the rows.
NoData == [null |-> TRUE, rows |-> <<>>]
Rows(r) == [null |-> FALSE, rows |-> r]

\* An account row, and a payload / query result that holds one or null.
AccountRow(b, e) == [null |-> FALSE, balance |-> b, equity |-> e]
NoRow == [null |-> TRUE, balance |-> 0, equity |-> 0]

\* ---------------------------------------------------------- the data store
\* Contents the trades table may hold (rows in storage order).
Tables ==
    { <<>>,
      << Trade(1, 5, 1) >>,
      << Trade(1, 5, 1), Trade(2, Null, 2) >>,
      << Trade(3, -3, 3), Trade(1, 5, 1), Trade(2, 0, 2) >> }

\* Rows the account_stats table may hold.
AccountRows == { AccountRow(100, 100), AccountRow(100, 90) }

RECURSIVE SelectSeq2(_, _, _)
\* rows of s with from <= open_time <= to, a bound applied only when given
SelectSeq2(s, from, to) ==
    IF s = <<>> THEN <<>>
    ELSE LET t == Head(s)
             keep == /\ (Truthy(from) => t.open_time # Null /\ t.open_time >= from)
                     /\ (Truthy(to) => t.open_time # Null /\ t.open_time <= to)
         IN (IF keep THEN <<t>> ELSE <<>>) \o SelectSeq2(Tail(s), from, to)

RECURSIVE InsertByTime(_, _, _)
\* t put into the time-ordered s after every row that does not come after it
InsertByTime(t, s, asc) ==
    IF s = <<>> THEN <<t>>
    ELSE LET before == IF asc THEN GetTime(Head(s).open_time) <= GetTime(t.open_time)
                              ELSE GetTime(Head(s).open_time) >= GetTime(t.open_time)
         IN IF before THEN <<Head(s)>> \o InsertByTime(t, Tail(s), asc)
                      ELSE <<t>> \o s

RECURSIVE OrderByTime(_, _)
\* stable sort of s by open_time (ascending or descending)
OrderByTime(s, asc) ==
    IF s = <<>> THEN <<>>
    ELSE InsertByTime(s[Len(s)], OrderByTime(SubSeq(s, 1, Len(s) - 1), asc), asc)

\* supabase.from('trades').select(..).order('open_time', { ascending }) with the
\* optional gte / lte filters, answered from table content tbl
SelectTrades(tbl, from, to, asc) == OrderByTime(SelectSeq2(tbl, from, to), asc)

\* What a trades query can resolve with: no data, or the rows of some content.
TradeResponses(from, to, asc) ==
    {NoData} \cup { Rows(SelectTrades(tbl, from, to, asc)) : tbl \in Tables }

\* What the account_stats table can hold: one of the rows, or no row.
AccountContents == {NoRow} \cup AccountRows

\* What payload.new of an account_stats notification can be.
AccountPayloads == {NoRow} \cup AccountRows

\* The dates the model picks in the date inputs, and the options of the bin-count
\* select it picks (the select offers 6, 8, 10, 12, 16 and 20).
Dates == {2}
BinChoices == {6, 12}

\* ------------------------------------------------------------------- state
VARIABLES
    url, key,          \* NEXT_PUBLIC_SUPABASE_URL / _KEY are set (truthy)
    page,              \* the route the tab shows: "dashboard" or "analysis"
    dView,             \* Dashboard: "uninit" (effect not run), "active", "closed"
    dTrades,           \* Dashboard: trades state
    account,           \* Dashboard: account state
    tradeChannel,      \* "none", "open", "removed"
    accountChannel,    \* "none", "open", "removed"
    dFetch,            \* Dashboard: fetchData calls in flight, [id, stage]
    dNext,             \* Dashboard: fetchData calls made so far
    dSeen,             \* Dashboard: the last trades response that carried rows
    accountRow,        \* the current content of the account_stats table
    dCanRead,          \* Dashboard: per account_stats query in flight, the rows the
                       \* table has held since the query was issued
    heldSincePush,     \* Dashboard: the rows the table has held since the last
                       \* pushed row the view applied (empty: none applied yet)
    aView,             \* Analysis: "uninit", "active", "closed"
    aTrades,           \* Analysis: trades state
    loading,           \* Analysis: loading state
    fromDate, toDate,  \* Analysis: date inputs
    bins,              \* Analysis: bin-count select
    aFetch,            \* Analysis: fetchTrades calls in flight, [id, from, to]
    aNext,             \* Analysis: queries issued so far
    aSeen,             \* Analysis: the last trades response that carried rows
    ev,                \* the handler that ran last, with its input
    pProfits, pBins,   \* analytics: input of makeHistogram
    pTrades,           \* analytics: input of computeStats / timeseries
    pOut               \* analytics: the function applied and its result

storeVars == <<accountRow, dCanRead, heldSincePush>>
dashVars ==
    <<dView, dTrades, account, tradeChannel, accountChannel, dFetch, dNext, dSeen,
      storeVars>>
anaVars == <<aView, aTrades, loading, fromDate, toDate, bins, aFetch, aNext, aSeen>>
pureVars == <<pProfits, pBins, pTrades, pOut>>
vars == <<url, key, page, dashVars, anaVars, ev, pureVars>>

\* `supabase` is non-null: both environment variables are set.
Configured == url /\ key

Ev(op, id, data, row) == [op |-> op, id |-> id, data |-> data, row |-> row]

\* The record of the last response with rows: the request it answers, the
\* request the one before it answered, and its rows.
NoneSeen == [id |-> -1, prev |-> -1, rows |-> <<>>]
Seen(seen, f, resp) ==
    IF resp.null THEN seen
    ELSE [id |-> f.id, prev |-> seen.id, rows |-> resp.rows]

\* --------------------------------------------------------------- Dashboard
\* fetchData() up to its first await: the trades query is issued.
FetchData ==
    /\ dFetch' = dFetch \cup {[id |-> dNext, stage |-> "trades"]}
    /\ dNext' = dNext + 1

\* Mutant of TradeCallback: a notification is dropped while a fetch is pending.
TradeCallbackIfIdle ==
    IF dFetch = {} THEN FetchData ELSE UNCHANGED <<dFetch, dNext>>

\* The callback of the trades channel.
TradeCallback == FetchData

\* Mutant of AccountCallback: equity is taken from the balance column.
AccountCallbackBalanceTwice(payload) ==
    account' = IF ~payload.null
               THEN [balance |-> payload.balance, equity |-> payload.balance]
               ELSE account

\* The callback of the account_stats channel.
AccountCallback(payload) ==
    account' = IF ~payload.null
               THEN [balance |-> payload.balance, equity |-> payload.equity]
               ELSE account

\* Mutant of Cleanup: the account channel is not removed.
CleanupTradesOnly ==
    /\ tradeChannel' = "removed"
    /\ UNCHANGED accountChannel

\* The cleanup the effect returns.
Cleanup ==
    /\ tradeChannel' = "removed"
    /\ accountChannel' = "removed"

\* The effect of Dashboard runs once after the first render.
DMount ==
    /\ page = "dashboard" /\ dView = "uninit"
    /\ dView' = "active"
    /\ IF ~Configured
       THEN UNCHANGED <<dFetch, dNext, tradeChannel, accountChannel>>
       ELSE /\ FetchData
            /\ tradeChannel' = "open"
            /\ accountChannel' = "open"
    /\ ev' = Ev("dMount", 0, NoData, NoRow)
    /\ UNCHANGED <<url, key, page, dTrades, account, dSeen, storeVars, anaVars, pureVars>>

\* A change of the trades table is notified on the open trades channel.
TradeNotify ==
    /\ tradeChannel = "open"
    /\ dNext < MaxFetch
    /\ TradeCallback
    /\ ev' = Ev("tradeNotify", dNext, NoData, NoRow)
    /\ UNCHANGED <<url, key, page, dView, dTrades, account, tradeChannel,
                   accountChannel, dSeen, storeVars, anaVars, pureVars>>

\* The rows a content of account_stats consists of.
RowsOf(content) == IF content.null THEN {} ELSE {content}

\* The account_stats row changes (payload.new is the new row, or absent when the
\* row was deleted) and the change is notified on the open account channel.
AccountNotify(payload) ==
    /\ accountChannel = "open"
    /\ accountRow' = payload
    /\ dCanRead' = [i \in DOMAIN dCanRead |-> dCanRead[i] \cup RowsOf(payload)]
    /\ AccountCallback(payload)
    /\ heldSincePush' = IF ~payload.null THEN {payload} ELSE heldSincePush
    /\ ev' = Ev("accountNotify", 0, NoData, payload)
    /\ UNCHANGED <<url, key, page, dView, dTrades, tradeChannel, accountChannel,
                   dFetch, dNext, dSeen, anaVars, pureVars>>

\* The account_stats row changes after the Dashboard removed its channels, while
\* a fetch it issued can still read the table.
AccountChange(row) ==
    /\ page = "dashboard" /\ accountChannel = "removed" /\ dFetch # {}
    /\ accountRow' = row
    /\ dCanRead' = [i \in DOMAIN dCanRead |-> dCanRead[i] \cup RowsOf(row)]
    /\ heldSincePush' = IF heldSincePush = {} THEN {}
                         ELSE heldSincePush \cup RowsOf(row)
    /\ ev' = Ev("accountChange", 0, NoData, row)
    /\ UNCHANGED <<url, key, page, dView, dTrades, account, tradeChannel,
                   accountChannel, dFetch, dNext, dSeen, anaVars, pureVars>>

\* Mutant of FetchDataTrades: the response of a request older than the one
\* answered last is discarded as stale.
FetchDataTradesNewestOnly(f, resp) ==
    /\ dTrades' = IF ~resp.null /\ f.id > dSeen.id THEN resp.rows ELSE dTrades
    /\ dFetch' = (dFetch \ {f}) \cup {[id |-> f.id, stage |-> "account"]}

\* fetchData() after the trades query resolved, up to its second await.
FetchDataTrades(f, resp) ==
    /\ dTrades' = IF ~resp.null THEN resp.rows ELSE dTrades
    /\ dFetch' = (dFetch \ {f}) \cup {[id |-> f.id, stage |-> "account"]}

\* fetchData() after the account_stats query resolved.
FetchDataAccount(f, acc) ==
    /\ account' = IF ~acc.null
                  THEN [balance |-> acc.balance, equity |-> acc.equity]
                  ELSE account
    /\ dFetch' = dFetch \ {f}

DTradesResolved(f, resp) ==
    /\ f \in dFetch /\ f.stage = "trades"
    /\ FetchDataTrades(f, resp)
    /\ dSeen' = Seen(dSeen, f, resp)
    /\ dCanRead' = [i \in DOMAIN dCanRead \cup {f.id} |->
                      IF i = f.id THEN RowsOf(accountRow) ELSE dCanRead[i]]
    /\ ev' = Ev("dTradesResolved", f.id, resp, NoRow)
    /\ UNCHANGED <<url, key, page, dView, account, tradeChannel, accountChannel,
                   dNext, accountRow, heldSincePush, anaVars, pureVars>>

\* What the account_stats query (.limit(1).single()) of fetch f can resolve with:
\* a row the table has held since the query was issued, or no data (the query
\* failed, or found no row).
AccountResponses(f) == {NoRow} \cup dCanRead[f.id]

DAccountResolved(f, acc) ==
    /\ f \in dFetch /\ f.stage = "account"
    /\ acc \in AccountResponses(f)
    /\ FetchDataAccount(f, acc)
    /\ dCanRead' = [i \in DOMAIN dCanRead \ {f.id} |-> dCanRead[i]]
    /\ ev' = Ev("dAccountResolved", f.id, NoData, acc)
    /\ UNCHANGED <<url, key, page, dView, dTrades, tradeChannel, accountChannel,
                   dNext, dSeen, accountRow, heldSincePush, anaVars, pureVars>>

\* The view is left: the effect's cleanup runs, if the effect returned one.
DUnmount ==
    /\ dView = "active"
    /\ dView' = "closed"
    /\ IF Configured THEN Cleanup ELSE UNCHANGED <<tradeChannel, accountChannel>>
    /\ ev' = Ev("dUnmount", 0, NoData, NoRow)
    /\ UNCHANGED <<url, key, page, dTrades, account, dFetch, dNext, dSeen, storeVars, anaVars, pureVars>>

\* ---------------------------------------------------------------- Analysis
\* Mutant of FetchTrades: the query is issued without the check of the client.
FetchTradesUnguarded(from, to) ==
    /\ loading' = TRUE
    /\ aFetch' = aFetch \cup {[id |-> aNext, from |-> from, to |-> to]}
    /\ aNext' = aNext + 1

\* fetchTrades(from, to) up to its await.
FetchTrades(from, to) ==
    IF ~Configured
    THEN /\ loading' = FALSE
         /\ UNCHANGED <<aFetch, aNext>>
    ELSE /\ loading' = TRUE
         /\ aFetch' = aFetch \cup {[id |-> aNext, from |-> from, to |-> to]}
         /\ aNext' = aNext + 1

\* Mutant of FetchTradesDone: a query without data empties the snapshot.
FetchTradesDoneOrEmpty(f, resp) ==
    /\ aTrades' = IF ~resp.null THEN resp.rows ELSE <<>>
    /\ loading' = FALSE
    /\ aFetch' = aFetch \ {f}

\* fetchTrades() after its query resolved.
FetchTradesDone(f, resp) ==
    /\ aTrades' = IF ~resp.null THEN resp.rows ELSE aTrades
    /\ loading' = FALSE
    /\ aFetch' = aFetch \ {f}

\* Mutant of OnFromChange: the new bound is fetched with at once.
OnFromChangeAndFetch(d) ==
    /\ fromDate' = d
    /\ FetchTrades(OrUndefined(d), OrUndefined(toDate))
    /\ UNCHANGED <<toDate, aTrades>>

\* onChange of the From input.
OnFromChange(d) == fromDate' = d /\ UNCHANGED <<toDate, aTrades, loading, aFetch, aNext>>

\* onChange of the To input.
OnToChange(d) == toDate' = d /\ UNCHANGED <<fromDate, aTrades, loading, aFetch, aNext>>

\* onChange of the bin-count select.
OnBinsChange(b) == bins' = b

\* onClick of the Refresh button.
OnRefreshClick == FetchTrades(OrUndefined(fromDate), OrUndefined(toDate))

\* The effect of AnalysisPage (initial load) runs once after the first render.
AMount ==
    /\ page = "analysis" /\ aView = "uninit"
    /\ aView' = "active"
    /\ FetchTrades(Null, Null)
    /\ ev' = Ev("aMount", aNext, NoData, NoRow)
    /\ UNCHANGED <<url, key, page, dashVars, aTrades, fromDate, toDate, bins, aSeen, pureVars>>

SetFromDate(d) ==
    /\ aView = "active"
    /\ OnFromChange(d)
    /\ ev' = Ev("setFromDate", 0, NoData, NoRow)
    /\ UNCHANGED <<url, key, page, dashVars, aView, bins, aSeen, pureVars>>

SetToDate(d) ==
    /\ aView = "active"
    /\ OnToChange(d)
    /\ ev' = Ev("setToDate", 0, NoData, NoRow)
    /\ UNCHANGED <<url, key, page, dashVars, aView, bins, aSeen, pureVars>>

SetBins(b) ==
    /\ aView = "active"
    /\ OnBinsChange(b)
    /\ ev' = Ev("setBins", 0, NoData, NoRow)
    /\ UNCHANGED <<url, key, page, dashVars, aView, aTrades, loading, fromDate, toDate,
                   aFetch, aNext, aSeen, pureVars>>

Refresh ==
    /\ aView = "active"
    /\ aNext < MaxFetch
    /\ OnRefreshClick
    /\ ev' = Ev("refresh", aNext, NoData, NoRow)
    /\ UNCHANGED <<url, key, page, dashVars, aView, aTrades, fromDate, toDate, bins,
                   aSeen, pureVars>>

AResolved(f, resp) ==
    /\ f \in aFetch
    /\ FetchTradesDone(f, resp)
    /\ aSeen' = Seen(aSeen, f, resp)
    /\ ev' = Ev("aResolved", f.id, resp, NoRow)
    /\ UNCHANGED <<url, key, page, dashVars, aView, fromDate, toDate, bins, aNext,
                   pureVars>>

\* The Back link is followed: the view is left.
ABack ==
    /\ aView = "active"
    /\ aView' = "closed"
    /\ ev' = Ev("aBack", 0, NoData, NoRow)
    /\ UNCHANGED <<url, key, page, dashVars, aTrades, loading, fromDate, toDate, bins,
                   aFetch, aNext, aSeen, pureVars>>

\* What AnalysisPage renders below its header.
AnalysisRender ==
    IF ~url \/ ~key THEN "banner"
    ELSE IF loading THEN "loading"
    ELSE "ready"

\* --------------------------------------------------------------- analytics
\* JS numbers that arise from dividing integers are kept exact, as fractions in
\* lowest terms with a positive denominator.
RECURSIVE Gcd(_, _)
Gcd(a, b) == IF b = 0 THEN a ELSE Gcd(b, a % b)

Abs(x) == IF x < 0 THEN -x ELSE x

\* n / d
Div(n, d) ==
    LET g == Gcd(Abs(n), Abs(d))
        sg == IF d < 0 THEN -1 ELSE 1
    IN [num |-> sg * (n \div g), den |-> sg * (d \div g)]

\* r * k
Times(r, k) == Div(r.num * k, r.den)

\* n + r
Plus(n, r) == Div(n * r.den + r.num, r.den)

\* Math.floor(r)
Floor(r) == r.num \div r.den

\* r.toFixed(2), as the number of hundredths printed
ToFixed2(r) == (200 * r.num + r.den) \div (2 * r.den)

RECURSIVE MapProfit(_)
\* trades.map(t => t.profit || 0)
MapProfit(trades) ==
    IF trades = <<>> THEN <<>>
    ELSE <<OrZero(Head(trades).profit)>> \o MapProfit(Tail(trades))

RECURSIVE Reduce(_, _)
\* profits.reduce((s, v) => s + v, s0)
Reduce(profits, s0) ==
    IF profits = <<>> THEN s0 ELSE Reduce(Tail(profits), s0 + Head(profits))

RECURSIVE FilterWins(_)
\* profits.filter(p => p >= 0)
FilterWins(profits) ==
    IF profits = <<>> THEN <<>>
    ELSE (IF Head(profits) >= 0 THEN <<Head(profits)>> ELSE <<>>)
         \o FilterWins(Tail(profits))

\* Mutant of computeStats: only a profit above 0 counts as a win.
computeStatsStrictWins(trades) ==
    LET total == Len(trades)
        profits == MapProfit(trades)
        sum == Reduce(profits, 0)
        avg == IF total # 0 THEN Div(sum, total) ELSE Div(0, 1)
        wins == Len(SelectSeq(profits, LAMBDA p : p > 0))
        winRate == IF total # 0 THEN Times(Div(wins, total), 100) ELSE Div(0, 1)
    IN [total |-> total, sum |-> sum, avg |-> avg, winRate |-> winRate]

computeStats(trades) ==
    LET total == Len(trades)
        profits == MapProfit(trades)
        sum == Reduce(profits, 0)
        avg == IF total # 0 THEN Div(sum, total) ELSE Div(0, 1)
        wins == Len(FilterWins(profits))
        winRate == IF total # 0 THEN Times(Div(wins, total), 100) ELSE Div(0, 1)
    IN [total |-> total, sum |-> sum, avg |-> avg, winRate |-> winRate]

RECURSIVE MathMin(_)
MathMin(profits) ==
    IF Len(profits) = 1 THEN profits[1]
    ELSE LET m == MathMin(Tail(profits))
         IN IF profits[1] < m THEN profits[1] ELSE m

RECURSIVE MathMax(_)
MathMax(profits) ==
    IF Len(profits) = 1 THEN profits[1]
    ELSE LET m == MathMax(Tail(profits))
         IN IF profits[1] > m THEN profits[1] ELSE m

\* Mutant of BucketIndex: the index is not clamped to the last bucket.
BucketIndexUnclamped(p, min, binWidth, nbins) ==
    Floor(Div((p - min) * binWidth.den, binWidth.num))

\* The bucket index of value p: Math.min(bins - 1, Math.floor((p - min) / binWidth)).
BucketIndex(p, min, binWidth, nbins) ==
    LET q == Floor(Div((p - min) * binWidth.den, binWidth.num))
    IN IF nbins - 1 < q THEN nbins - 1 ELSE q

RECURSIVE CountInto(_, _, _, _, _)
\* profits.forEach(p => counts[idx]++); counts[i + 1] models counts[i].  An index
\* outside the array adds no element to one of its buckets.
CountInto(profits, counts, min, binWidth, nbins) ==
    IF profits = <<>> THEN counts
    ELSE LET idx == BucketIndex(Head(profits), min, binWidth, nbins)
             next == IF idx \in 0..(nbins - 1)
                     THEN [counts EXCEPT ![idx + 1] = @ + 1]
                     ELSE counts
         IN CountInto(Tail(profits), next, min, binWidth, nbins)

makeHistogram(profits, nbins) ==
    IF Len(profits) = 0 THEN [labels |-> <<>>, counts |-> <<>>]
    ELSE LET min == MathMin(profits)
             max == MathMax(profits)
             range == IF max - min # 0 THEN max - min ELSE 1
             binWidth == Div(range, nbins)
             labels == [i \in 1..nbins |->
                          LET a == Plus(min, Times(binWidth, i - 1))
                              b == Plus(0, Div(a.num * binWidth.den + binWidth.num * a.den,
                                               a.den * binWidth.den))
                          IN <<ToFixed2(a), ToFixed2(b)>>]
             counts == CountInto(profits, [i \in 1..nbins |-> 0], min, binWidth, nbins)
         IN [labels |-> labels, counts |-> counts]

RECURSIVE FilterOpenTime(_)
\* trades.filter(t => t.open_time)
FilterOpenTime(trades) ==
    IF trades = <<>> THEN <<>>
    ELSE (IF Truthy(Head(trades).open_time) THEN <<Head(trades)>> ELSE <<>>)
         \o FilterOpenTime(Tail(trades))

RECURSIVE Cumulate(_, _)
\* for (const s of sorted) { acc += s.profit || 0; cum.push(acc) }
Cumulate(sorted, acc) ==
    IF sorted = <<>> THEN <<>>
    ELSE LET a == acc + OrZero(Head(sorted).profit)
         IN <<a>> \o Cumulate(Tail(sorted), a)

\* Mutant of timeseries: trades without an open time are not filtered out.
timeseriesUnfiltered(trades) ==
    LET sorted == OrderByTime(trades, TRUE)
    IN [labels |-> [i \in 1..Len(sorted) |-> sorted[i].open_time],
        cum |-> Cumulate(sorted, 0)]

\* The timeseries memo: labels are derived from the sorted open times, which
\* stand for them here.
timeseries(trades) ==
    LET sorted == OrderByTime(FilterOpenTime(trades), TRUE)
    IN [labels |-> [i \in 1..Len(sorted) |-> sorted[i].open_time],
        cum |-> Cumulate(sorted, 0)]

\* Inputs the analytics functions are applied to.
ProfitValues == {-4, -1, 0, 1, 3, 5}
TradeProfits == {Null, -2, 0, 3}
TradeTimes == {Null, 1, 2, 3}

\* The list of trades with tickets 1..k, profits and open times as f gives them.
TradeList(k, f) == [i \in 1..k |-> Trade(i, f[i][1], f[i][2])]

NoOut == [fn |-> "none", val |-> 0]

ApplyComputeStats ==
    /\ pOut = NoOut
    /\ pOut' = [fn |-> "computeStats", val |-> computeStats(pTrades)]
    /\ UNCHANGED <<url, key, page, dashVars, anaVars, ev, pProfits, pBins, pTrades>>

ApplyMakeHistogram ==
    /\ pOut = NoOut
    /\ pOut' = [fn |-> "makeHistogram", val |-> makeHistogram(pProfits, pBins)]
    /\ UNCHANGED <<url, key, page, dashVars, anaVars, ev, pProfits, pBins, pTrades>>

ApplyTimeseries ==
    /\ pOut = NoOut
    /\ pOut' = [fn |-> "timeseries", val |-> timeseries(pTrades)]
    /\ UNCHANGED <<url, key, page, dashVars, anaVars, ev, pProfits, pBins, pTrades>>

\* ---------------------------------------------------------- specifications
\* The state of both components before any effect has run.
ViewInit ==
    /\ dView = "uninit" /\ dTrades = <<>> /\ account = [balance |-> 0, equity |-> 0]
    /\ tradeChannel = "none" /\ accountChannel = "none"
    /\ dFetch = {} /\ dNext = 0 /\ dSeen = NoneSeen
    /\ dCanRead = << >> /\ heldSincePush = {}
    /\ aView = "uninit" /\ aTrades = <<>> /\ loading = TRUE
    /\ fromDate = EmptyStr /\ toDate = EmptyStr /\ bins = 12
    /\ aFetch = {} /\ aNext = 0 /\ aSeen = NoneSeen
    /\ ev = Ev("init", 0, NoData, NoRow)

Init ==
    /\ url \in BOOLEAN /\ key \in BOOLEAN
    /\ page \in {"dashboard", "analysis"}
    /\ ViewInit
    \* account_stats is read by the Dashboard alone: its content is left open there
    /\ accountRow \in IF page = "dashboard" THEN AccountContents ELSE {NoRow}
    /\ pProfits = <<>> /\ pBins = 10 /\ pTrades = <<>> /\ pOut = NoOut

Next ==
    \/ DMount
    \/ TradeNotify
    \/ \E payload \in AccountPayloads : AccountNotify(payload)
    \/ \E f \in dFetch : \E resp \in TradeResponses(Null, Null, FALSE) :
          DTradesResolved(f, resp)
    \/ \E row \in AccountPayloads : AccountChange(row)
    \/ \E f \in dFetch : \E acc \in AccountContents : DAccountResolved(f, acc)
    \/ DUnmount
    \/ AMount
    \/ \E d \in Dates \cup {EmptyStr} : SetFromDate(d)
    \/ \E d \in Dates \cup {EmptyStr} : SetToDate(d)
    \/ \E b \in BinChoices : SetBins(b)
    \/ Refresh
    \/ \E f \in aFetch : \E resp \in TradeResponses(f.from, f.to, TRUE) :
          AResolved(f, resp)
    \/ ABack

Spec == Init /\ [][Next]_vars

\* The analytics functions applied to every input within the bounds.
InitPure ==
    /\ url = TRUE /\ key = TRUE /\ page = "analysis"
    /\ ViewInit /\ accountRow = NoRow
    /\ pOut = NoOut
    /\ \/ /\ \E k \in 0..MaxLen : pProfits \in [1..k -> ProfitValues]
          /\ pBins \in 1..MaxBins
          /\ pTrades = <<>>
       \/ /\ pProfits = <<>> /\ pBins = 10
          /\ \E k \in 0..MaxLen : \E f \in [1..k -> TradeProfits \X TradeTimes] :
                pTrades = TradeList(k, f)

NextPure ==
    \/ ApplyComputeStats
    \/ ApplyMakeHistogram
    \/ ApplyTimeseries

SpecPure == InitPure /\ [][NextPure]_vars

\* ------------------------------------------------------------------ claims
NotifyOps == {"tradeNotify", "accountNotify"}

\* C1: once the Dashboard view is deactivated, both of its change-feed channels
\* are closed and none of their callbacks runs: in no state of a deactivated view
\* is the handler that ran last a notification callback (so no notification issues
\* a fetch and no pushed account row is applied after the cleanup).
C1_ClosedViewHearsNothing ==
    dView = "closed" =>
        /\ tradeChannel # "open" /\ accountChannel # "open"
        /\ Configured => (tradeChannel = "removed" /\ accountChannel = "removed")
        /\ ev.op \notin NotifyOps

\* C1 witness: the view was deactivated after a notification had issued a second
\* fetch, and a response of an outstanding fetch still landed afterwards.
C1_Witness ==
    /\ dView = "closed" /\ tradeChannel = "removed" /\ accountChannel = "removed"
    /\ dNext >= 2
    /\ ev.op = "dAccountResolved"

\* C2: every notification on the trades channel issues one new fetch of all
\* trades, whatever is pending and without touching the snapshot itself; and a
\* Dashboard trades query that resolves with rows replaces the snapshot by
\* exactly those rows.
C2_TradeNotifyRefetches ==
    [][ /\ ev'.op = "tradeNotify" =>
             /\ dFetch' = dFetch \cup {[id |-> dNext, stage |-> "trades"]}
             /\ [id |-> dNext, stage |-> "trades"] \notin dFetch
             /\ dNext' = dNext + 1
             /\ dTrades' = dTrades
        /\ (ev'.op = "dTradesResolved" /\ ~ev'.data.null) =>
             dTrades' = ev'.data.rows ]_vars

\* C2 witness: a fetch issued by a notification while the initial fetch was still
\* pending has resolved with rows, which are now the snapshot.
C2_Witness ==
    /\ ev.op = "dTradesResolved" /\ ev.id >= 1 /\ ~ev.data.null
    /\ dTrades = ev.data.rows /\ Len(dTrades) > 0
    /\ \E f \in dFetch : f.id < ev.id /\ f.stage = "trades"

\* C3: an account_stats notification that carries a row sets the account state
\* to that row's balance and equity, issues no fetch and leaves the trades
\* snapshot as it was.
C3_AccountPushApplied ==
    [][ (ev'.op = "accountNotify" /\ ~ev'.row.null) =>
           /\ account' = [balance |-> ev'.row.balance, equity |-> ev'.row.equity]
           /\ dFetch' = dFetch /\ dNext' = dNext
           /\ dTrades' = dTrades ]_vars

\* C3 witness: a pushed row whose equity differs from its balance was applied
\* while a fetch was pending and the snapshot held trades.
C3_Witness ==
    /\ ev.op = "accountNotify" /\ ~ev.row.null
    /\ ev.row.balance # ev.row.equity
    /\ account = [balance |-> ev.row.balance, equity |-> ev.row.equity]
    /\ dFetch # {} /\ Len(dTrades) > 0

\* Trades queries of the Dashboard that have not resolved yet.
DTradesInFlight == { f \in dFetch : f.stage = "trades" }

\* C4 as stated: once no trades query is in flight, the snapshot is the result of
\* the response that resolved last (the empty sequence for a query without
\* data), also when that response answers a request older than the newest one.
C4_LastResolvedIsSnapshot ==
    /\ (ev.op = "dTradesResolved" /\ DTradesInFlight = {} /\ ev.id < dNext - 1) =>
           dTrades = ev.data.rows
    /\ (ev.op = "aResolved" /\ aFetch = {} /\ ev.id < aNext - 1) =>
           aTrades = ev.data.rows

\* C4 as amended: once no trades query is in flight, the snapshot is the rows of
\* the last response that carried rows, whichever request it answers (a response
\* without data leaves the snapshot as it was); nothing is discarded as stale.
C4_LastRowsWin ==
    /\ DTradesInFlight = {} =>
           dTrades = (IF dSeen.id >= 0 THEN dSeen.rows ELSE <<>>)
    /\ aFetch = {} =>
           aTrades = (IF aSeen.id >= 0 THEN aSeen.rows ELSE <<>>)

\* C4 witness: two Dashboard fetches overlapped, the newer request was answered
\* first and the older one last, both with rows; the older one's rows are shown.
C4_Witness ==
    /\ dNext >= 2 /\ DTradesInFlight = {}
    /\ dSeen.id >= 0 /\ dSeen.id < dSeen.prev
    /\ ev.op = "dTradesResolved" /\ ev.id = dSeen.id
    /\ dTrades = dSeen.rows /\ Len(dTrades) > 0

\* C5 as stated: after every fetch completion the snapshot is that fetch's
\* result, the empty sequence when the store gave no data, and the Analysis view
\* is not loading.
C5_CompletionReplaces ==
    /\ ev.op = "dTradesResolved" => dTrades = ev.data.rows
    /\ ev.op = "aResolved" => (aTrades = ev.data.rows /\ ~loading)

\* C5 as amended: a fetch that completes with rows replaces the snapshot by
\* exactly those rows, a fetch that completes without data (data is null, nothing
\* is thrown) leaves the snapshot as it was, and in both cases the Analysis view
\* sets loading to false, which shows it Ready.
C5_CompletionReplacesOrKeeps ==
    [][ /\ ev'.op = "dTradesResolved" =>
             dTrades' = (IF ev'.data.null THEN dTrades ELSE ev'.data.rows)
        /\ ev'.op = "aResolved" =>
             /\ aTrades' = (IF ev'.data.null THEN aTrades ELSE ev'.data.rows)
             /\ loading' = FALSE
             /\ AnalysisRender' = "ready" ]_vars

\* C5 witness: an Analysis fetch completed without data while the snapshot held
\* trades; the trades are still there and the view is Ready.
C5_Witness ==
    /\ ev.op = "aResolved" /\ ev.data.null
    /\ Len(aTrades) > 0 /\ ~loading /\ AnalysisRender = "ready"

\* C6: with the URL or the key absent no query and no subscription is ever
\* issued, both snapshots stay empty (the account stays 0 / 0), and the Analysis
\* view renders its configuration-missing banner, neither Loading nor an error.
C6_UnconfiguredStaysEmpty ==
    ~Configured =>
        /\ dNext = 0 /\ aNext = 0 /\ dFetch = {} /\ aFetch = {}
        /\ tradeChannel = "none" /\ accountChannel = "none"
        /\ dTrades = <<>> /\ aTrades = <<>>
        /\ account = [balance |-> 0, equity |-> 0]
        /\ AnalysisRender = "banner"

\* C6 witness: without the key, a date was entered and Refresh was clicked.
C6_Witness ==
    /\ url /\ ~key /\ page = "analysis"
    /\ ev.op = "refresh" /\ fromDate # EmptyStr /\ ~loading

FilterOps == {"setBins", "setFromDate", "setToDate"}

\* C7 as stated: a changed bin count issues no fetch and keeps the snapshot,
\* and a changed date bound issues a new fetch that carries the bounds.
C7_DateChangeFetches ==
    [][ /\ ev'.op = "setBins" =>
             (aFetch' = aFetch /\ aNext' = aNext /\ aTrades' = aTrades)
        /\ (ev'.op \in {"setFromDate", "setToDate"} /\ Configured
            /\ <<fromDate', toDate'>> # <<fromDate, toDate>>) =>
             /\ aNext' = aNext + 1
             /\ aFetch' = aFetch \cup {[id |-> aNext, from |-> OrUndefined(fromDate'),
                                       to |-> OrUndefined(toDate')]} ]_vars

\* C7 as amended: no change of a filter parameter issues a fetch or touches the
\* snapshot: a changed bin count only resizes the histogram computed from the
\* snapshot, a changed date bound is only stored; the bounds are carried by the
\* fetch that the next click on Refresh issues.
C7_OnlyRefreshFetches ==
    [][ /\ ev'.op \in FilterOps =>
             /\ aFetch' = aFetch /\ aNext' = aNext
             /\ aTrades' = aTrades /\ loading' = loading
        /\ (ev'.op = "setBins" /\ aTrades # <<>>) =>
             LET h == makeHistogram(MapProfit(aTrades'), bins')
             IN Len(h.counts) = bins' /\ Reduce(h.counts, 0) = Len(aTrades)
        /\ (ev'.op = "refresh" /\ Configured) =>
             /\ aNext' = aNext + 1
             /\ aFetch' = aFetch \cup {[id |-> aNext, from |-> OrUndefined(fromDate),
                                       to |-> OrUndefined(toDate)]} ]_vars

\* C7 witness: after the initial load both dates were set, which issued nothing,
\* and the click on Refresh issued the second fetch, carrying both bounds.
C7_Witness ==
    /\ ev.op = "refresh" /\ ev.id = 1 /\ aNext = 2
    /\ fromDate = 2 /\ toDate = 2
    /\ [id |-> 1, from |-> 2, to |-> 2] \in aFetch

\* Sums, minima and counts as the claims about the analytics state them.
RECURSIVE SumTo(_, _)
SumTo(s, k) == IF k = 0 THEN 0 ELSE SumTo(s, k - 1) + s[k]

ProfitOf(t) == IF t.profit = Null THEN 0 ELSE t.profit
RECURSIVE NetTo(_, _)
NetTo(s, k) == IF k = 0 THEN 0 ELSE NetTo(s, k - 1) + ProfitOf(s[k])

Least(s) == CHOOSE x \in {s[i] : i \in 1..Len(s)} : \A i \in 1..Len(s) : x <= s[i]
Greatest(s) == CHOOSE x \in {s[i] : i \in 1..Len(s)} : \A i \in 1..Len(s) : x >= s[i]
Count(s, x) == Cardinality({i \in 1..Len(s) : s[i] = x})

\* C8: for a non-empty list of profits and a bin count >= 1, makeHistogram makes
\* binCount buckets whose counts sum to the number of profits (each value is in
\* exactly one bucket with an index in 0..binCount-1); when the values are not all
\* equal every occurrence of the maximum is in the last bucket, and when they are
\* all equal all of them are in bucket 0.
C8_HistogramPartitions ==
    (pOut.fn = "makeHistogram" /\ pProfits # <<>>) =>
        LET c == pOut.val.counts
            lo == Least(pProfits)
            hi == Greatest(pProfits)
        IN /\ Len(c) = pBins
           /\ \A i \in 1..pBins : c[i] >= 0
           /\ SumTo(c, pBins) = Len(pProfits)
           /\ \A i \in 1..Len(pProfits) :
                 BucketIndex(pProfits[i], lo, Div(IF hi = lo THEN 1 ELSE hi - lo, pBins),
                             pBins) \in 0..(pBins - 1)
           /\ hi # lo => /\ c[pBins] >= Count(pProfits, hi)
                         /\ BucketIndex(hi, lo, Div(hi - lo, pBins), pBins) = pBins - 1
           /\ hi = lo => c[1] = Len(pProfits)

\* C8 witness: three values, not all equal, in the six buckets the view's
\* smallest option gives: the maximum is in the last bucket, the others are not.
C8_Witness ==
    /\ pOut.fn = "makeHistogram" /\ Len(pProfits) = 3 /\ pBins = 6
    /\ Greatest(pProfits) # Least(pProfits)
    /\ pOut.val.counts[6] = 1 /\ pOut.val.counts[1] = 1
    /\ SumTo(pOut.val.counts, 6) = 3

HasTime(t) == t.open_time # Null

\* The orders in which the trades with an open time can stand by ascending time.
AscendingOrders(trades) ==
    LET idx == {i \in 1..Len(trades) : HasTime(trades[i])}
        n == Cardinality(idx)
    IN { p \in [1..n -> idx] :
           /\ \A i, j \in 1..n : i # j => p[i] # p[j]
           /\ \A i \in 1..(n - 1) :
                 trades[p[i]].open_time <= trades[p[i + 1]].open_time }

\* C9: the cumulative series has one point per trade that has an open time; the
\* points stand in ascending open-time order; point i is the sum of the profits
\* (absent counted as 0) of the first i trades of that order; and the last value
\* is the net sum of the trades that have an open time.
C9_CumulativeSeries ==
    pOut.fn = "timeseries" =>
        LET cum == pOut.val.cum
            lab == pOut.val.labels
            n == Cardinality({i \in 1..Len(pTrades) : HasTime(pTrades[i])})
        IN /\ Len(cum) = n /\ Len(lab) = n
           /\ \E p \in AscendingOrders(pTrades) :
                 LET ordered == [i \in 1..n |-> pTrades[p[i]]]
                 IN \A i \in 1..n :
                       /\ lab[i] = ordered[i].open_time
                       /\ cum[i] = NetTo(ordered, i)
           /\ n > 0 =>
                 cum[n] = NetTo([i \in 1..Len(pTrades) |->
                                   IF HasTime(pTrades[i]) THEN pTrades[i]
                                   ELSE Trade(i, 0, Null)], Len(pTrades))

\* C9 witness: three trades stored out of time order, one without a profit, and
\* the series 3, 1, 1 of the spec's scenario shape (a gain, a loss, no profit).
C9_Witness ==
    /\ pOut.fn = "timeseries" /\ Len(pTrades) = 3
    /\ pTrades[1].open_time = 2 /\ pTrades[2].open_time = 1 /\ pTrades[3].open_time = 3
    /\ pTrades[1].profit = -2 /\ pTrades[2].profit = 3 /\ pTrades[3].profit = Null
    /\ pOut.val.cum = <<3, 1, 1>>

\* C10: computeStats gives total = the number of trades, sum = the sum of the
\* profits with an absent profit counted as 0, avg = sum / total and winRate =
\* 100 * (number of trades whose profit, absent counted as 0, is >= 0) / total;
\* for the empty list all four are 0.
C10_Stats ==
    pOut.fn = "computeStats" =>
        LET st == pOut.val
            n == Len(pTrades)
            wins == Cardinality({i \in 1..n : ProfitOf(pTrades[i]) >= 0})
        IN /\ st.total = n
           /\ st.sum = NetTo(pTrades, n)
           /\ st.avg.den > 0 /\ st.winRate.den > 0
           /\ n > 0 => /\ st.avg.num * n = st.sum * st.avg.den
                       /\ st.winRate.num * n = 100 * wins * st.winRate.den
           /\ n = 0 => /\ st.sum = 0
                       /\ st.avg.num = 0 /\ st.winRate.num = 0

\* C10 witness: a gain, a loss and a profit of exactly 0: the zero counts as a
\* win, so the win rate is 200/3 per cent.
C10_Witness ==
    /\ pOut.fn = "computeStats" /\ Len(pTrades) = 3
    /\ pTrades[1].profit = 3 /\ pTrades[2].profit = -2 /\ pTrades[3].profit = 0
    /\ pOut.val.sum = 1
    /\ pOut.val.avg = [num |-> 1, den |-> 3]
    /\ pOut.val.winRate = [num |-> 200, den |-> 3]

\* C11: once the Dashboard has applied a pushed account row, the response of a
\* fetch issued before that push does not put older values back: after every
\* account_stats response, AccountStats shows a row the table has held since the
\* last push the view applied.
C11_PushedRowSurvives ==
    (ev.op = "dAccountResolved" /\ heldSincePush # {})
        => \E r \in heldSincePush :
               account = [balance |-> r.balance, equity |-> r.equity]

\* C12: in the configured Analysis view the loading flag is true in every state
\* in which a fetch the view issued has not resolved yet, so the view never
\* renders Ready while a fetch is in flight.
C12_LoadingWhileInFlight ==
    (Configured /\ aFetch # {}) => (loading /\ AnalysisRender = "loading")
====
